---- MODULE Spec2Model ----
(***************************************************************************)
(* FundFeed: the engagement ledger (followRound, unfollowRound,            *)
(* createIntroRequest, updateIntroRequestStatus, hasIntroRequest), the     *)
(* trending query (getTrendingRounds) of src/lib/firestore.ts and          *)
(* src/lib/database.ts, the intro-request POST handler, and the browser    *)
(* side: the home page with its Follow and Request Intro buttons and the   *)
(* launch form.                                                            *)
(*                                                                         *)
(* Every `await` of a data-access function is one atomic step against the  *)
(* shared store; calls of different clients interleave between steps.      *)
(* Both data layers of the repository are modelled; `backend` says which   *)
(* one a behaviour runs on. The row-level-security policies of the SQL     *)
(* schema are not modelled: every call runs with a role they let through.  *)
(***************************************************************************)
EXTENDS Integers, Sequences, FiniteSets, TLC

\* ------------------------------------------------------------------ bounds
NumUsers == 2          \* users with a stored profile
NumRounds == 2         \* stored fundraising rounds of the ledger specifications
MaxCalls == 3          \* calls started in one behaviour
RankRounds == 3        \* stored rounds of the ranking specification
MaxTime == 2           \* createdAt values 0..MaxTime
MaxCount == 2          \* followerCount values 0..MaxCount (ranking specification)
MaxLaunches == 2       \* submissions of the launch form that go on to the upload

UserIds == 1..NumUsers
RoundIds == 1..NumRounds
Procs == 1..MaxCalls
RankRoundIds == 1..RankRounds
\* ids that are in no collection: a user without a profile, a round never created
GhostUser == 0
GhostRound == 0
\* a field the request body does not carry, or carries empty (a falsy value)
NoValue == 0 - 1
Names == {"Acme"}
Backends == {"firestore", "supabase"}

VARIABLES
    backend,    \* which data layer the behaviour runs on
    users,      \* users collection: id -> followedRounds (an array)
    rounds,     \* fundraising_rounds collection: id -> record
    requests,   \* intro_requests collection: a set of records
    proc,       \* per client call: position in the function and its locals
    calls,      \* number of calls started so far
    clean,      \* TRUE while no call has thrown
    returned,   \* <<investorId, roundId, id>> for every id createIntroRequest returned
    trending,   \* the list the last getTrendingRounds returned
    asked,      \* the limitCount of that call (0: no call yet)
    page,       \* one browser: auth state, home page, its buttons, the launch form
    storage,    \* the 'fundraising' bucket: the object last written under logos/, decks/
    form        \* LaunchForm's state: formData, logoFile, deckFile, errors

vars == <<backend, users, rounds, requests, proc, calls, clean, returned, trending, asked,
          page, storage, form>>

\* ------------------------------------------------------------- pure helpers
Max(a, b) == IF a >= b THEN a ELSE b

\* the membership test lost: the round is never found in the list
IncludesNever(lst, x) == FALSE

\* Array.prototype.includes, the test deciding whether the call writes anything
Includes(lst, x) == \E k \in 1..Len(lst) : lst[k] = x

\* followedRounds.filter(id => id !== roundId)
RECURSIVE Without(_, _)
Without(lst, x) ==
    IF lst = <<>> THEN <<>>
    ELSE IF Head(lst) = x THEN Without(Tail(lst), x)
    ELSE <<Head(lst)>> \o Without(Tail(lst), x)

\* number of times x occurs in the array
Occurrences(lst, x) == Cardinality({k \in 1..Len(lst) : lst[k] = x})

\* the new array built without the round
WithAddedNothing(lst, x) == lst

\* [...followedRounds, roundId]
WithAdded(lst, x) == Append(lst, x)

\* (followerCount || 0) + 1
Incremented(c) == c + 1

\* the decrement without its floor
DecrementedNoFloor(c) == c - 1

\* Math.max((followerCount || 0) - 1, 0)
Decremented(c) == Max(c - 1, 0)

\* the existence query without its roundId condition
FindExistingByInvestor(i, r) == {q \in requests : q.investorId = i}

\* the existence query looking at pending requests only
FindExistingPending(i, r) ==
    {q \in requests : q.investorId = i /\ q.roundId = r /\ q.status = "pending"}

\* where('investorId','==',i), where('roundId','==',r)
FindExisting(i, r) == {q \in requests : q.investorId = i /\ q.roundId = r}

\* the id addDoc / gen_random_uuid() gives a new request: one no stored request has
\* (requests are never deleted, so the number stored so far names a fresh one)
FreshId == Cardinality(requests) + 1

\* ------------------------------------------------------------------ state
\* no file: useState<File | null>(null); no object stored under a prefix
NoFile == [type |-> "none", size |-> NoValue]

\* { valid: true }: the result of a validator that found nothing wrong
Valid == [valid |-> TRUE, error |-> ""]

\* const [errors, setErrors] = useState<FormErrors>({}); "" is an unset message
NoErrors ==
    [companyName |-> "", raisingAmount |-> "", description |-> "", logo |-> "",
     deck |-> ""]

\* the form as it mounts
EmptyForm ==
    [companyName |-> "", raisingAmount |-> "", description |-> "",
     logoFile |-> NoFile, deckFile |-> NoFile, errors |-> NoErrors]

\* the bucket with nothing uploaded
EmptyStorage == [logo |-> NoFile, deck |-> NoFile]

\* an updates object carrying neither counter
NoUpdates == [followerCount |-> NoValue, introRequestCount |-> NoValue]

IdleProc ==
    [pc |-> "idle", op |-> "none", user |-> GhostUser, round |-> GhostRound,
     name |-> "", lst |-> <<>>, cnt |-> 0, ret |-> 0, err |-> "none",
     had |-> FALSE, fc0 |-> 0, irc0 |-> 0, route |-> FALSE, answer |-> 0,
     req |-> 0, updates |-> NoUpdates, logo |-> NoFile, deck |-> NoFile,
     pending |-> {}, validation |-> Valid, status0 |-> ""]

NewRound(t) ==
    [createdAt |-> t, updatedAt |-> t, followerCount |-> 0, introRequestCount |-> 0]

\* no fetch and no button handler waiting for a call
Idle == [kind |-> "none", round |-> GhostRound, call |-> 0, unfollow |-> FALSE]

\* Home mounts with nobody signed in (the auth state still loading) and its
\* effect has started fetchData
InitialPage ==
    [view |-> "home", user |-> NoValue, authLoading |-> TRUE,
     loading |-> TRUE, error |-> FALSE, cards |-> {},
     followedRounds |-> <<>>, requestedIntros |-> {}, isRequested |-> {},
     busy |-> [Idle EXCEPT !.kind = "fetch"], fstep |-> "rounds",
     alert |-> "none"]

\* LaunchForm mounted on its own, nobody signed in
InitialForm ==
    [InitialPage EXCEPT !.view = "launch", !.loading = FALSE, !.busy = Idle,
                        !.fstep = "done"]

Resting(p) == proc[p].pc \in {"idle", "done", "failed"}
Quiet == \A p \in Procs : Resting(p)

Init ==
    /\ backend \in Backends
    /\ users = [u \in UserIds |-> <<>>]
    /\ rounds = [r \in RoundIds |-> NewRound(0)]
    /\ requests = {}
    /\ proc = [p \in Procs |-> IdleProc]
    /\ calls = 0
    /\ clean = TRUE
    /\ returned = {}
    /\ trending = <<>>
    /\ asked = 0
    /\ page = InitialPage
    /\ storage = EmptyStorage
    /\ form = EmptyForm

\* the stored relation: r is in u's followedRounds
Follows(u, r) == u \in DOMAIN users /\ \E k \in DOMAIN users[u] : users[u][k] = r

\* the stored requests of investor i for round r
RequestsFor(i, r) == {q \in requests : q.investorId = i /\ q.roundId = r}

\* The store as it is when a call starts, kept to state the call's effect: had
\* says that what the call is to add or remove is already stored.
Snapshot(op, u, r) ==
    [had |-> IF op = "intro" THEN RequestsFor(u, r) # {} ELSE Follows(u, r),
     fc0 |-> IF r \in DOMAIN rounds THEN rounds[r].followerCount ELSE 0,
     irc0 |-> IF r \in DOMAIN rounds THEN rounds[r].introRequestCount ELSE 0]

Begin(p, op, u, r, n, first) ==
    /\ Resting(p)
    /\ calls < MaxCalls
    /\ calls' = calls + 1
    /\ proc' = [proc EXCEPT ![p] =
                  [pc |-> first, op |-> op, user |-> u, round |-> r, name |-> n,
                   lst |-> <<>>, cnt |-> 0, ret |-> 0, err |-> "none",
                   had |-> Snapshot(op, u, r).had, fc0 |-> Snapshot(op, u, r).fc0,
                   irc0 |-> Snapshot(op, u, r).irc0, route |-> FALSE, answer |-> 0,
                   req |-> 0, updates |-> NoUpdates, logo |-> NoFile, deck |-> NoFile,
                   pending |-> {}, validation |-> Valid, status0 |-> ""]]
    /\ UNCHANGED <<backend, users, rounds, requests, clean, returned, trending, asked, page, storage, form>>

\* the call returns
Return(p) == proc' = [proc EXCEPT ![p].pc = "done"]

\* the call throws
Throw(p, kind) ==
    /\ proc' = [proc EXCEPT ![p].pc = "failed", ![p].err = kind]
    /\ clean' = FALSE

\* ------------------------------------------------------------ followRound
StartFollow(p, u, r) == Begin(p, "follow", u, r, "", "getUser")

\* getDoc(userRef) / select followed_rounds .single(); the includes test
FollowGetUser(p) ==
    /\ proc[p].op = "follow" /\ proc[p].pc = "getUser"
    /\ IF proc[p].user \notin DOMAIN users
       THEN Throw(p, "UserNotFound")
       ELSE /\ proc' = [proc EXCEPT
                   ![p].lst = users[proc[p].user],
                   ![p].pc = IF Includes(users[proc[p].user], proc[p].round)
                             THEN "done" ELSE "updUser"]
            /\ UNCHANGED clean
    /\ UNCHANGED <<backend, users, rounds, requests, calls, returned, trending, asked, page, storage, form>>

\* updateDoc(userRef, {followedRounds: [...followedRounds, roundId]})
FollowUpdUser(p) ==
    /\ proc[p].op = "follow" /\ proc[p].pc = "updUser"
    /\ users' = [users EXCEPT ![proc[p].user] = WithAdded(proc[p].lst, proc[p].round)]
    /\ proc' = [proc EXCEPT ![p].pc = "getRound"]
    /\ UNCHANGED <<backend, rounds, requests, calls, clean, returned, trending, asked, page, storage, form>>

\* getDoc(roundRef) with the exists() test / select follower_count .single()
FollowGetRound(p) ==
    /\ proc[p].op = "follow" /\ proc[p].pc = "getRound"
    /\ IF proc[p].round \in DOMAIN rounds
       THEN /\ proc' = [proc EXCEPT ![p].cnt = rounds[proc[p].round].followerCount,
                                    ![p].pc = "updRound"]
            /\ UNCHANGED clean
       ELSE IF backend = "firestore"
            THEN Return(p) /\ UNCHANGED clean
            ELSE Throw(p, "RoundNotFound")
    /\ UNCHANGED <<backend, users, rounds, requests, calls, returned, trending, asked, page, storage, form>>

\* updateDoc(roundRef, {followerCount: (roundData.followerCount || 0) + 1})
FollowUpdRound(p) ==
    /\ proc[p].op = "follow" /\ proc[p].pc = "updRound"
    /\ rounds' = [rounds EXCEPT ![proc[p].round].followerCount = Incremented(proc[p].cnt)]
    /\ Return(p)
    /\ UNCHANGED <<backend, users, requests, calls, clean, returned, trending, asked, page, storage, form>>

\* ---------------------------------------------------------- unfollowRound
StartUnfollow(p, u, r) == Begin(p, "unfollow", u, r, "", "getUser")

UnfollowGetUser(p) ==
    /\ proc[p].op = "unfollow" /\ proc[p].pc = "getUser"
    /\ IF proc[p].user \notin DOMAIN users
       THEN Throw(p, "UserNotFound")
       ELSE /\ proc' = [proc EXCEPT
                   ![p].lst = users[proc[p].user],
                   ![p].pc = IF Includes(users[proc[p].user], proc[p].round)
                             THEN "updUser" ELSE "done"]
            /\ UNCHANGED clean
    /\ UNCHANGED <<backend, users, rounds, requests, calls, returned, trending, asked, page, storage, form>>

\* updateDoc(userRef, {followedRounds: followedRounds.filter(id => id !== roundId)})
UnfollowUpdUser(p) ==
    /\ proc[p].op = "unfollow" /\ proc[p].pc = "updUser"
    /\ users' = [users EXCEPT ![proc[p].user] = Without(proc[p].lst, proc[p].round)]
    /\ proc' = [proc EXCEPT ![p].pc = "getRound"]
    /\ UNCHANGED <<backend, rounds, requests, calls, clean, returned, trending, asked, page, storage, form>>

UnfollowGetRound(p) ==
    /\ proc[p].op = "unfollow" /\ proc[p].pc = "getRound"
    /\ IF proc[p].round \in DOMAIN rounds
       THEN /\ proc' = [proc EXCEPT ![p].cnt = rounds[proc[p].round].followerCount,
                                    ![p].pc = "updRound"]
            /\ UNCHANGED clean
       ELSE IF backend = "firestore"
            THEN Return(p) /\ UNCHANGED clean
            ELSE Throw(p, "RoundNotFound")
    /\ UNCHANGED <<backend, users, rounds, requests, calls, returned, trending, asked, page, storage, form>>

\* updateDoc(roundRef, {followerCount: Math.max((roundData.followerCount || 0) - 1, 0)})
UnfollowUpdRound(p) ==
    /\ proc[p].op = "unfollow" /\ proc[p].pc = "updRound"
    /\ rounds' = [rounds EXCEPT ![proc[p].round].followerCount = Decremented(proc[p].cnt)]
    /\ Return(p)
    /\ UNCHANGED <<backend, users, requests, calls, clean, returned, trending, asked, page, storage, form>>

\* ------------------------------------------------------ createIntroRequest
StartIntro(p, i, r, n) == Begin(p, "intro", i, r, n, "check")

\* the existence query; an existing request's id is returned unchanged
IntroCheck(p) ==
    /\ proc[p].op = "intro" /\ proc[p].pc = "check"
    /\ LET found == FindExisting(proc[p].user, proc[p].round) IN
       IF found # {}
       THEN \* docs[0]: ids are random, so any of several matches can come first
            \E q \in found :
              /\ proc' = [proc EXCEPT ![p].ret = q.id, ![p].pc = "done"]
              /\ returned' = returned \cup {<<proc[p].user, proc[p].round, q.id>>}
       ELSE /\ proc' = [proc EXCEPT ![p].pc = "insert"]
            /\ UNCHANGED returned
    /\ UNCHANGED <<backend, users, rounds, requests, calls, clean, trending, asked, page, storage, form>>

\* every timestamp the store holds
StoredTimes ==
    {q.createdAt : q \in requests}
      \cup {rounds[r].createdAt : r \in DOMAIN rounds}
      \cup {rounds[r].updatedAt : r \in DOMAIN rounds}

\* Timestamp.now() / now(): the clock shows a time later than every time it
\* has shown before, so later than every timestamp stored
Now == 1 + (CHOOSE t \in StoredTimes \cup {0} : \A x \in StoredTimes \cup {0} : x <= t)

\* {...requestData, status: 'pending', createdAt: Timestamp.now()}
NewRequest(id, i, r, n) ==
    [id |-> id, investorId |-> i, roundId |-> r, startupName |-> n,
     status |-> "pending", createdAt |-> Now]

\* what the intro_requests table refuses: UNIQUE(investor_id, round_id) and the
\* two REFERENCES; a Firestore collection refuses nothing
InsertError(i, r) ==
    IF backend = "firestore" THEN "none"
    ELSE IF FindExisting(i, r) # {} THEN "UniquenessConflict"
    ELSE IF i \notin DOMAIN users \/ r \notin DOMAIN rounds THEN "ForeignKeyViolation"
    ELSE "none"

\* addDoc(requestsRef, newRequest) / insert(...).select('id').single()
IntroInsert(p) ==
    /\ proc[p].op = "intro" /\ proc[p].pc = "insert"
    /\ IF InsertError(proc[p].user, proc[p].round) # "none"
       THEN /\ Throw(p, InsertError(proc[p].user, proc[p].round))
            /\ UNCHANGED requests
       ELSE /\ requests' = requests \cup
                   {NewRequest(FreshId, proc[p].user, proc[p].round, proc[p].name)}
            /\ proc' = [proc EXCEPT ![p].ret = FreshId, ![p].pc = "getRound"]
            /\ UNCHANGED clean
    /\ UNCHANGED <<backend, users, rounds, calls, returned, trending, asked, page, storage, form>>

IntroGetRound(p) ==
    /\ proc[p].op = "intro" /\ proc[p].pc = "getRound"
    /\ IF proc[p].round \in DOMAIN rounds
       THEN /\ proc' = [proc EXCEPT ![p].cnt = rounds[proc[p].round].introRequestCount,
                                    ![p].pc = "updRound"]
            /\ UNCHANGED <<clean, returned>>
       ELSE IF backend = "firestore"
            THEN /\ Return(p)
                 /\ returned' = returned \cup {<<proc[p].user, proc[p].round, proc[p].ret>>}
                 /\ UNCHANGED clean
            ELSE Throw(p, "RoundNotFound") /\ UNCHANGED returned
    /\ UNCHANGED <<backend, users, rounds, requests, calls, trending, asked, page, storage, form>>

\* updateDoc(roundRef, {introRequestCount: (roundData.introRequestCount || 0) + 1})
IntroUpdRound(p) ==
    /\ proc[p].op = "intro" /\ proc[p].pc = "updRound"
    /\ rounds' = [rounds EXCEPT
                    ![proc[p].round].introRequestCount = Incremented(proc[p].cnt)]
    /\ Return(p)
    /\ returned' = returned \cup {<<proc[p].user, proc[p].round, proc[p].ret>>}
    /\ UNCHANGED <<backend, users, requests, calls, clean, trending, asked, page, storage, form>>

\* ------------------------------------------------ updateIntroRequestStatus
Statuses == {"pending", "accepted", "declined"}

\* the status of the stored request with this id ("": there is none), kept
\* when a call starts to state the call's effect
StatusOf(requestId) ==
    IF \E q \in requests : q.id = requestId
    THEN (CHOOSE q \in requests : q.id = requestId).status
    ELSE ""

StartStatus(p, requestId, status) ==
    /\ Resting(p)
    /\ calls < MaxCalls
    /\ calls' = calls + 1
    /\ proc' = [proc EXCEPT ![p] =
                  [IdleProc EXCEPT !.pc = "update", !.op = "status",
                                   !.req = requestId, !.name = status,
                                   !.status0 = StatusOf(requestId)]]
    /\ UNCHANGED <<backend, users, rounds, requests, clean, returned, trending, asked, page, storage, form>>

\* the status only ever set on a pending request
WithStatusFromPending(q, status) ==
    IF q.status = "pending" THEN [q EXCEPT !.status = status] ELSE q

\* updateDoc(requestRef, {status}) / update({status}).eq('id', requestId): the
\* other fields of the request stay as they are
WithStatus(q, status) == [q EXCEPT !.status = status]

\* updateDoc rejects when the document does not exist; an UPDATE that matches
\* no row is no error
UpdateStatus(p) ==
    /\ proc[p].op = "status" /\ proc[p].pc = "update"
    /\ IF \E q \in requests : q.id = proc[p].req
       THEN /\ requests' = {IF q.id = proc[p].req THEN WithStatus(q, proc[p].name) ELSE q :
                              q \in requests}
            /\ Return(p)
            /\ UNCHANGED clean
       ELSE /\ IF backend = "firestore" THEN Throw(p, "RequestNotFound")
               ELSE Return(p) /\ UNCHANGED clean
            /\ UNCHANGED requests
    /\ UNCHANGED <<backend, users, rounds, calls, returned, trending, asked, page, storage, form>>

\* -------------------------------------------------------- hasIntroRequest
\* the query without its roundId condition
HasIntroRequestOfInvestor(i, r) == {q \in requests : q.investorId = i} # {}

\* where('investorId','==',i), where('roundId','==',r); !querySnapshot.empty
HasIntroRequest(i, r) ==
    {q \in requests : q.investorId = i /\ q.roundId = r} # {}

\* ------------------------------------------------- POST /api/intro-request
\* the authentication test made before the test of the required fields
ValidateUserFirst(userId, roundId, startupName) ==
    IF userId = NoValue THEN 401
    ELSE IF roundId = NoValue \/ startupName = "" THEN 400
    ELSE 0

\* if (!roundId || !startupName) 400; if (!userId) 401; 0: the body passes
Validate(userId, roundId, startupName) ==
    IF roundId = NoValue \/ startupName = "" THEN 400
    ELSE IF userId = NoValue THEN 401
    ELSE 0

\* The handler up to its first store call: the body is read and validated, and
\* a body that fails is answered at once.
StartPost(p, userId, roundId, startupName) ==
    /\ Resting(p)
    /\ calls < MaxCalls
    /\ calls' = calls + 1
    /\ proc' = [proc EXCEPT ![p] =
                  [pc |-> IF Validate(userId, roundId, startupName) = 0
                          THEN "hasIntro" ELSE "done",
                   op |-> "post", user |-> userId, round |-> roundId,
                   name |-> startupName, lst |-> <<>>, cnt |-> 0, ret |-> 0,
                   err |-> "none",
                   had |-> Snapshot("intro", userId, roundId).had,
                   fc0 |-> Snapshot("intro", userId, roundId).fc0,
                   irc0 |-> Snapshot("intro", userId, roundId).irc0,
                   route |-> TRUE,
                   answer |-> Validate(userId, roundId, startupName),
                   req |-> 0, updates |-> NoUpdates, logo |-> NoFile, deck |-> NoFile,
                   pending |-> {}, validation |-> Valid, status0 |-> ""]]
    /\ UNCHANGED <<backend, users, rounds, requests, clean, returned, trending, asked, page, storage, form>>

\* await hasIntroRequest(userId, roundId): 200 'Intro already requested', or on
\* to createIntroRequest({investorId: userId, roundId, startupName})
PostHasIntro(p) ==
    /\ proc[p].op = "post" /\ proc[p].pc = "hasIntro"
    /\ IF HasIntroRequest(proc[p].user, proc[p].round)
       THEN proc' = [proc EXCEPT ![p].answer = 200, ![p].pc = "done"]
       ELSE proc' = [proc EXCEPT
                       ![p].op = "intro", ![p].pc = "check",
                       ![p].had = Snapshot("intro", proc[p].user, proc[p].round).had,
                       ![p].irc0 = Snapshot("intro", proc[p].user, proc[p].round).irc0]
    /\ UNCHANGED <<backend, users, rounds, requests, calls, clean, returned, trending, asked, page, storage, form>>

\* The status of the response: 400, 401 and 200 are answered on the spot; 201
\* follows createIntroRequest returning, and the catch block turns anything
\* thrown into 500. 0: no response yet, or not a call of the handler.
Status(p) ==
    IF ~proc[p].route THEN 0
    ELSE IF proc[p].answer # 0 THEN proc[p].answer
    ELSE IF proc[p].pc = "failed" THEN 500
    ELSE IF proc[p].pc = "done" THEN 201
    ELSE 0

\* ------------------------------------------------------------ store failure
\* any awaited store call can reject (store unreachable); nothing is caught
\* inside the data-access functions, so the call ends there
StoreFail(p) ==
    /\ ~Resting(p)
    /\ Throw(p, "StoreUnavailable")
    /\ UNCHANGED <<backend, users, rounds, requests, calls, returned, trending, asked, page, storage, form>>

\* -------------------------------------------------------- getTrendingRounds
\* the second key ordered ascending instead of descending
SortsBeforeCountAscending(a, b) ==
    \/ a.createdAt > b.createdAt
    \/ a.createdAt = b.createdAt /\ a.followerCount < b.followerCount

\* orderBy('createdAt','desc'), orderBy('followerCount','desc'): row a sorts
\* strictly before row b
SortsBefore(a, b) ==
    \/ a.createdAt > b.createdAt
    \/ a.createdAt = b.createdAt /\ a.followerCount > b.followerCount

\* id: doc.id, ...doc.data()
RowOf(id) ==
    [id |-> id, createdAt |-> rounds[id].createdAt,
     followerCount |-> rounds[id].followerCount,
     introRequestCount |-> rounds[id].introRequestCount]

\* the rows of S no other row of S sorts strictly before
Tops(S) == {a \in S : \A b \in S : ~SortsBefore(b, a)}

\* the rows that can come first. Firestore ends every order with the document
\* id, in the direction of the last orderBy (descending here); Postgres leaves
\* rows that tie on the ORDER BY columns in an order it does not specify
FirstRows(S) ==
    IF backend = "firestore"
    THEN {a \in Tops(S) : \A b \in Tops(S) : b.id <= a.id}
    ELSE Tops(S)

\* the lists the ordered query over the rows S can produce
RECURSIVE Orderings(_)
Orderings(S) ==
    IF S = {} THEN {<<>>}
    ELSE UNION {{<<a>> \o rest : rest \in Orderings(S \ {a})} : a \in FirstRows(S)}

\* the limit letting one row too many through
LimitedOneMore(rows, limitCount) ==
    SubSeq(rows, 1, IF Len(rows) < limitCount + 1 THEN Len(rows) ELSE limitCount + 1)

\* limit(limitCount)
Limited(rows, limitCount) ==
    SubSeq(rows, 1, IF Len(rows) < limitCount THEN Len(rows) ELSE limitCount)

GetTrendingRounds(limitCount) ==
    /\ trending' \in {Limited(rows, limitCount) :
                        rows \in Orderings({RowOf(id) : id \in DOMAIN rounds})}
    /\ asked' = limitCount
    /\ UNCHANGED <<backend, users, rounds, requests, proc, calls, clean, returned, page,
                   storage, form>>

\* ----------------------------------------------------------------- storage
LOGO_MAX_SIZE == 5 * 1024 * 1024
DECK_MAX_SIZE == 10 * 1024 * 1024
ALLOWED_LOGO_TYPES == {"image/png", "image/jpeg", "image/jpg", "image/webp"}
ALLOWED_DECK_TYPES == {"application/pdf"}

\* the size test letting no file of exactly the maximum size through
ValidateLogoFileBelowMax(file) ==
    IF file.type \notin ALLOWED_LOGO_TYPES
    THEN [valid |-> FALSE, error |-> "Invalid file type"]
    ELSE IF file.size >= LOGO_MAX_SIZE
    THEN [valid |-> FALSE, error |-> "File size exceeds limit"]
    ELSE Valid

\* validateLogoFile
ValidateLogoFile(file) ==
    IF file.type \notin ALLOWED_LOGO_TYPES
    THEN [valid |-> FALSE, error |-> "Invalid file type"]
    ELSE IF file.size > LOGO_MAX_SIZE
    THEN [valid |-> FALSE, error |-> "File size exceeds limit"]
    ELSE Valid

\* validateDeckFile
ValidateDeckFile(file) ==
    IF file.type \notin ALLOWED_DECK_TYPES
    THEN [valid |-> FALSE, error |-> "Invalid file type"]
    ELSE IF file.size > DECK_MAX_SIZE
    THEN [valid |-> FALSE, error |-> "File size exceeds limit"]
    ELSE Valid

\* uploadLogo up to its storage call: an invalid file throws validation.error
StartUploadLogo(p, file) ==
    /\ Resting(p)
    /\ calls < MaxCalls
    /\ calls' = calls + 1
    /\ LET validation == ValidateLogoFile(file) IN
       /\ proc' = [proc EXCEPT ![p] =
                     [IdleProc EXCEPT
                        !.op = "uploadLogo", !.logo = file, !.validation = validation,
                        !.pc = IF validation.valid THEN "upload" ELSE "failed",
                        !.err = IF validation.valid THEN "none" ELSE validation.error,
                        !.pending = IF validation.valid THEN {"logo"} ELSE {}]]
       /\ clean' = (clean /\ validation.valid)
    /\ UNCHANGED <<backend, users, rounds, requests, returned, trending, asked, page,
                   storage, form>>

\* uploadDeck up to its storage call
StartUploadDeck(p, file) ==
    /\ Resting(p)
    /\ calls < MaxCalls
    /\ calls' = calls + 1
    /\ LET validation == ValidateDeckFile(file) IN
       /\ proc' = [proc EXCEPT ![p] =
                     [IdleProc EXCEPT
                        !.op = "uploadDeck", !.deck = file, !.validation = validation,
                        !.pc = IF validation.valid THEN "upload" ELSE "failed",
                        !.err = IF validation.valid THEN "none" ELSE validation.error,
                        !.pending = IF validation.valid THEN {"deck"} ELSE {}]]
       /\ clean' = (clean /\ validation.valid)
    /\ UNCHANGED <<backend, users, rounds, requests, returned, trending, asked, page,
                   storage, form>>

\* supabase.storage.from('fundraising').upload(path, file, {upsert: true}) of
\* the logo (k = "logo") or the deck. Of the two uploads uploadRoundFiles runs
\* under Promise.all, one goes on after the other has rejected.
Upload(p, k) ==
    /\ k \in proc[p].pending
    /\ proc[p].pc = "upload" \/ (proc[p].op = "launch" /\ proc[p].pc = "failed")
    /\ storage' = [storage EXCEPT ![k] = IF k = "logo" THEN proc[p].logo ELSE proc[p].deck]
    /\ proc' = [proc EXCEPT
                  ![p].pending = @ \ {k},
                  ![p].pc = IF @ = "upload" /\ proc[p].pending = {k}
                            THEN (IF proc[p].op = "launch" THEN "create" ELSE "done")
                            ELSE @]
    /\ UNCHANGED <<backend, users, rounds, requests, calls, clean, returned, trending,
                   asked, page, form>>

\* ------------------------------------------- LaunchForm's protected action
\* String.prototype.trim on the strings a field holds here
Trim(s) == IF s = " " THEN "" ELSE s

\* uploadRoundFiles(tempRoundId, logoFile, deckFile), then
\* createFundraisingRound: both uploads validate their file as they are called
StartLaunch(p, u, f) ==
    /\ Resting(p)
    /\ calls < MaxCalls
    /\ calls' = calls + 1
    /\ LET logo == ValidateLogoFile(f.logoFile)
           deck == ValidateDeckFile(f.deckFile) IN
       /\ proc' = [proc EXCEPT ![p] =
                     [IdleProc EXCEPT
                        !.op = "launch", !.user = u, !.name = Trim(f.companyName),
                        !.logo = f.logoFile, !.deck = f.deckFile,
                        !.pc = IF logo.valid /\ deck.valid THEN "upload" ELSE "failed",
                        !.err = IF ~logo.valid THEN logo.error
                                ELSE IF ~deck.valid THEN deck.error ELSE "none",
                        !.pending = {k \in {"logo"} : logo.valid}
                                      \cup {k \in {"deck"} : deck.valid}]]
       /\ clean' = (clean /\ logo.valid /\ deck.valid)
    /\ UNCHANGED <<backend, users, rounds, requests, returned, trending, asked, page,
                   storage, form>>

\* await uploadRoundFiles(...): one of its two uploads
LaunchUpload(p) == proc[p].op = "launch" /\ \E k \in {"logo", "deck"} : Upload(p, k)

\* the id addDoc / gen_random_uuid() gives a new round (rounds are not deleted here)
FreshRoundId == Cardinality(DOMAIN rounds) + 1

\* createFundraisingRound: addDoc(roundsRef, {...roundData, createdAt: now,
\* updatedAt: now, followerCount: 0, introRequestCount: 0})
LaunchCreate(p) ==
    /\ proc[p].op = "launch" /\ proc[p].pc = "create"
    /\ rounds' = [id \in DOMAIN rounds \cup {FreshRoundId} |->
                    IF id \in DOMAIN rounds THEN rounds[id] ELSE NewRound(Now)]
    /\ Return(p)
    /\ UNCHANGED <<backend, users, requests, calls, clean, returned, trending, asked, page, storage, form>>

\* ---------------------------- createFundraisingRound, updateFundraisingRound
\* createFundraisingRound called on its own
StartCreate(p, u) == Begin(p, "launch", u, GhostRound, "Acme", "create")

\* what `updates` can carry for a counter: nothing, or a number of the caller's
\* (Partial<Omit<FundraisingRound, 'id' | 'createdAt'>> leaves both counters in)
CounterUpdates == {NoValue} \cup (0..MaxCount)

StartUpdate(p, r, updates) ==
    /\ Resting(p)
    /\ calls < MaxCalls
    /\ calls' = calls + 1
    /\ proc' = [proc EXCEPT ![p] =
                  [IdleProc EXCEPT !.pc = "write", !.op = "update", !.round = r,
                                   !.updates = updates,
                                   !.fc0 = Snapshot("update", GhostUser, r).fc0,
                                   !.irc0 = Snapshot("update", GhostUser, r).irc0]]
    /\ UNCHANGED <<backend, users, rounds, requests, clean, returned, trending, asked, page, storage, form>>

\* {...updates, updatedAt: Timestamp.now()} / dbUpdates with follower_count and
\* intro_request_count set when updates carries them, and updated_at
Updated(row, updates, t) ==
    [row EXCEPT
       !.followerCount = IF updates.followerCount # NoValue
                         THEN updates.followerCount ELSE @,
       !.introRequestCount = IF updates.introRequestCount # NoValue
                             THEN updates.introRequestCount ELSE @,
       !.updatedAt = t]

\* updateDoc(roundRef, ...) rejects when the document does not exist;
\* update(dbUpdates).eq('id', roundId) matching no row is no error
UpdateRound(p) ==
    /\ proc[p].op = "update" /\ proc[p].pc = "write"
    /\ IF proc[p].round \in DOMAIN rounds
       THEN /\ rounds' = [rounds EXCEPT
                            ![proc[p].round] = Updated(@, proc[p].updates, Now)]
            /\ Return(p)
            /\ UNCHANGED clean
       ELSE /\ IF backend = "firestore" THEN Throw(p, "RoundNotFound")
               ELSE Return(p) /\ UNCHANGED clean
            /\ UNCHANGED rounds
    /\ UNCHANGED <<backend, users, requests, calls, returned, trending, asked, page, storage, form>>

\* ------------------------------------------------- the browser: auth, Home
\* the guard that lets a handler through as if somebody were signed in
SignedInAlways(user) == TRUE

\* if (!user) { alert('Please sign in ...'); return; }
SignedIn(user) == user # NoValue

\* the cards are rendered: !loading && !error && rounds.length > 0
Visible(r) == ~page.loading /\ ~page.error /\ r \in page.cards

\* the handler waiting for its call: the call is started, and has ended
CallStarted == calls >= page.busy.call
CallEnded == CallStarted /\ Resting(1)

\* what only the page changes
PageOnly ==
    UNCHANGED <<backend, users, rounds, requests, proc, calls, clean, returned,
                trending, asked, storage, form>>

\* onAuthStateChanged: setUser, setLoading(false); a changed user re-runs
\* Home's effect, which starts fetchData (cards give way to the skeleton)
AuthChanged(u) ==
    /\ page.busy.kind = "none"
    /\ u # page.user \/ page.authLoading
    /\ page' = IF u = page.user
               THEN [page EXCEPT !.authLoading = FALSE, !.alert = "none"]
               ELSE IF page.view = "home"
               THEN [page EXCEPT !.user = u, !.authLoading = FALSE,
                                 !.loading = TRUE, !.error = FALSE,
                                 !.busy = [Idle EXCEPT !.kind = "fetch"],
                                 !.fstep = "rounds", !.alert = "none"]
               ELSE [page EXCEPT !.user = u, !.authLoading = FALSE, !.alert = "none"]
    /\ PageOnly

\* setRounds(await getTrendingRounds(20)); with nobody signed in fetchData ends
\* here: setLoading(false), and the cards mount with useState(hasRequested)
FetchRounds ==
    /\ page.busy.kind = "fetch" /\ page.fstep = "rounds"
    /\ page' = IF page.user = NoValue
               THEN [page EXCEPT !.cards = DOMAIN rounds, !.loading = FALSE,
                                 !.busy = Idle, !.fstep = "done",
                                 !.isRequested = page.requestedIntros \cap DOMAIN rounds]
               ELSE [page EXCEPT !.cards = DOMAIN rounds, !.fstep = "profile"]
    /\ PageOnly

\* userProfile = await getUserProfile(user.uid);
\* if (userProfile) setFollowedRounds(userProfile.followedRounds || [])
FetchProfile ==
    /\ page.busy.kind = "fetch" /\ page.fstep = "profile"
    /\ page' = [page EXCEPT
                  !.followedRounds = IF page.user \in DOMAIN users
                                     THEN users[page.user] ELSE @,
                  !.fstep = "requests"]
    /\ PageOnly

\* setRequestedIntros((await getIntroRequestsForInvestor(user.uid)).map(roundId));
\* setLoading(false), and the cards mount with useState(hasRequested)
FetchRequests ==
    /\ page.busy.kind = "fetch" /\ page.fstep = "requests"
    /\ LET mine == {q.roundId : q \in {x \in requests : x.investorId = page.user}} IN
       page' = [page EXCEPT !.requestedIntros = mine, !.loading = FALSE,
                            !.busy = Idle, !.fstep = "done",
                            !.isRequested = mine \cap page.cards]
    /\ PageOnly

\* one of fetchData's awaits rejects: setError(...), setLoading(false)
FetchFail ==
    /\ page.busy.kind = "fetch"
    /\ page' = [page EXCEPT !.error = TRUE, !.loading = FALSE, !.busy = Idle,
                            !.fstep = "done", !.isRequested = {}]
    /\ PageOnly

\* FollowButton.handleClick up to its await: setIsLoading(true), onToggle() ->
\* Home.handleFollowToggle reads followedRounds.includes(roundId)
ClickFollow(r) ==
    /\ Visible(r) /\ page.busy.kind = "none"
    /\ IF ~SignedIn(page.user)
       THEN page' = [page EXCEPT !.alert = "signin"]
       ELSE /\ calls < MaxCalls
            /\ page' = [page EXCEPT
                          !.busy = [kind |-> "toggle", round |-> r, call |-> calls + 1,
                                    unfollow |-> Includes(page.followedRounds, r)],
                          !.alert = "none"]
    /\ PageOnly

\* await unfollowRound(user.uid, roundId) / await followRound(user.uid, roundId)
ToggleCall ==
    /\ page.busy.kind = "toggle" /\ ~CallStarted
    /\ IF page.busy.unfollow
       THEN StartUnfollow(1, page.user, page.busy.round)
       ELSE StartFollow(1, page.user, page.busy.round)

\* the list always changed as if the call had returned
NextFollowedOptimistic(lst, r, unfollow, ok) ==
    IF unfollow THEN Without(lst, r) ELSE WithAdded(lst, r)

\* setFollowedRounds(prev => prev.filter(id => id !== roundId)) or
\* setFollowedRounds(prev => [...prev, roundId]) after the await; the catch
\* block sets nothing
NextFollowed(lst, r, unfollow, ok) ==
    IF ~ok THEN lst
    ELSE IF unfollow THEN Without(lst, r) ELSE WithAdded(lst, r)

\* the awaited call has ended: state update or alert, then setIsLoading(false)
ToggleSettled ==
    /\ page.busy.kind = "toggle" /\ CallEnded
    /\ page' = [page EXCEPT
                  !.followedRounds = NextFollowed(@, page.busy.round, page.busy.unfollow,
                                                  proc[1].pc = "done"),
                  !.alert = IF proc[1].pc = "done" THEN "none" ELSE "failed",
                  !.busy = Idle]
    /\ PageOnly

\* RequestIntroButton.handleClick up to its await (the button is disabled
\* once isRequested)
ClickIntro(r) ==
    /\ Visible(r) /\ page.busy.kind = "none" /\ r \notin page.isRequested
    /\ IF ~SignedIn(page.user)
       THEN page' = [page EXCEPT !.alert = "signin"]
       ELSE /\ calls < MaxCalls
            /\ page' = [page EXCEPT
                          !.busy = [kind |-> "intro", round |-> r, call |-> calls + 1,
                                    unfollow |-> FALSE],
                          !.alert = "none"]
    /\ PageOnly

\* fetch('/api/intro-request', {method: 'POST', body: {roundId, startupName, userId}})
IntroCall ==
    /\ page.busy.kind = "intro" /\ ~CallStarted
    /\ StartPost(1, page.user, page.busy.round, "Acme")

\* the button marked requested whatever the response
NextRequestedAlways(shown, r, status) == shown \cup {r}

\* if (!response.ok) throw ...; setIsRequested(true)
NextRequested(shown, r, status) ==
    IF status \in {200, 201} THEN shown \cup {r} ELSE shown

\* the response has arrived: setIsRequested(true) or alert, then setIsLoading(false)
IntroSettled ==
    /\ page.busy.kind = "intro" /\ CallEnded
    /\ page' = [page EXCEPT
                  !.isRequested = NextRequested(@, page.busy.round, Status(1)),
                  !.alert = IF Status(1) \in {200, 201} THEN "sent" ELSE "failed",
                  !.busy = Idle]
    /\ PageOnly

\* fetch rejects (the request or its response lost on the way): the catch
\* block alerts, then setIsLoading(false)
IntroRejected ==
    /\ page.busy.kind = "intro" /\ (~CallStarted \/ CallEnded)
    /\ page' = [page EXCEPT !.alert = "failed", !.busy = Idle]
    /\ PageOnly

\* what only the form changes
FormOnly ==
    UNCHANGED <<backend, users, rounds, requests, proc, calls, clean, returned,
                trending, asked, page, storage>>

\* the form can be edited: it is shown and no submission is under way (a
\* submission works on the values of the render it was made in)
Editable == page.view = "launch" /\ page.busy.kind = "none"

\* handleInputChange for companyName, raisingAmount, description:
\* setFormData, and the field's error cleared
InputChange(field, value) ==
    /\ Editable
    /\ form' = [form EXCEPT ![field] = value, !.errors[field] = ""]
    /\ FormOnly

\* handleLogoChange: an invalid file sets its error and setLogoFile(null)
LogoChange(file) ==
    /\ Editable
    /\ form' = IF ~ValidateLogoFile(file).valid
               THEN [form EXCEPT !.errors.logo = ValidateLogoFile(file).error,
                                 !.logoFile = NoFile]
               ELSE [form EXCEPT !.logoFile = file, !.errors.logo = ""]
    /\ FormOnly

\* handleDeckChange
DeckChange(file) ==
    /\ Editable
    /\ form' = IF ~ValidateDeckFile(file).valid
               THEN [form EXCEPT !.errors.deck = ValidateDeckFile(file).error,
                                 !.deckFile = NoFile]
               ELSE [form EXCEPT !.deckFile = file, !.errors.deck = ""]
    /\ FormOnly

\* parseFloat on the strings the number input holds here, the value in tenths
ParseFloat(s) ==
    CASE s = "0" -> [nan |-> FALSE, tenths |-> 0]
      [] s = "-5" -> [nan |-> FALSE, tenths |-> 0 - 50]
      [] s = "0.5" -> [nan |-> FALSE, tenths |-> 5]
      [] OTHER -> [nan |-> TRUE, tenths |-> 0]

\* x <= 0 (false of NaN)
NotPositive(x) == ~x.nan /\ x.tenths <= 0

\* validateForm without its test of the deck
FormErrorsNoDeck(f) ==
    [companyName |-> IF Trim(f.companyName) = "" THEN "required" ELSE "",
     raisingAmount |-> IF f.raisingAmount = "" \/ NotPositive(ParseFloat(f.raisingAmount))
                       THEN "required" ELSE "",
     description |-> IF Trim(f.description) = "" THEN "required" ELSE "",
     logo |-> IF f.logoFile = NoFile THEN "required" ELSE "",
     deck |-> ""]

\* validateForm: newErrors
FormErrors(f) ==
    [companyName |-> IF Trim(f.companyName) = "" THEN "required" ELSE "",
     raisingAmount |-> IF f.raisingAmount = "" \/ NotPositive(ParseFloat(f.raisingAmount))
                       THEN "required" ELSE "",
     description |-> IF Trim(f.description) = "" THEN "required" ELSE "",
     logo |-> IF f.logoFile = NoFile THEN "required" ELSE "",
     deck |-> IF f.deckFile = NoFile THEN "required" ELSE ""]

\* Object.keys(newErrors).length === 0
ValidateForm(f) == FormErrors(f) = NoErrors

\* LaunchForm.handleSubmit up to its first await: the sign-in test,
\* validateForm(), setIsSubmitting(true)
SubmitLaunch ==
    /\ page.view = "launch" /\ page.busy.kind = "none"
    /\ IF ~SignedIn(page.user)
       THEN page' = [page EXCEPT !.alert = "signin"] /\ UNCHANGED form
       ELSE /\ form' = [form EXCEPT !.errors = FormErrors(form)]
            /\ IF ~ValidateForm(form)
               THEN page' = [page EXCEPT !.alert = "none"]
               ELSE /\ calls < MaxCalls
                    /\ page' = [page EXCEPT
                                  !.busy = [kind |-> "launch", round |-> GhostRound,
                                            call |-> calls + 1, unfollow |-> FALSE],
                                  !.alert = "none"]
    /\ UNCHANGED <<backend, users, rounds, requests, proc, calls, clean, returned,
                   trending, asked, storage>>

\* await uploadRoundFiles(tempRoundId, logoFile!, deckFile!) with the files of
\* the render the form was submitted in
LaunchCall ==
    /\ page.busy.kind = "launch" /\ ~CallStarted
    /\ StartLaunch(1, page.user, form)

\* onSuccess() or the catch block's alert, then setIsSubmitting(false)
LaunchSettled ==
    /\ page.busy.kind = "launch" /\ CallEnded
    /\ page' = [page EXCEPT
                  !.alert = IF proc[1].pc = "done" THEN "launched" ELSE "failed",
                  !.busy = Idle]
    /\ PageOnly

\* ---------------------------------------------------------- specifications
Targets == RoundIds \cup {GhostRound}
Callers == UserIds \cup {GhostUser}

\* a call by a user with a profile on a stored round
StartStored(p) ==
    \/ \E u \in UserIds, r \in RoundIds : StartFollow(p, u, r)
    \/ \E u \in UserIds, r \in RoundIds : StartUnfollow(p, u, r)
    \/ \E i \in UserIds, r \in RoundIds, n \in Names : StartIntro(p, i, r, n)

\* a call with any ids, stored or not
StartAny(p) ==
    \/ \E u \in Callers, r \in Targets : StartFollow(p, u, r)
    \/ \E u \in Callers, r \in Targets : StartUnfollow(p, u, r)
    \/ \E i \in Callers, r \in Targets, n \in Names : StartIntro(p, i, r, n)

Step(p) ==
    \/ FollowGetUser(p) \/ FollowUpdUser(p) \/ FollowGetRound(p) \/ FollowUpdRound(p)
    \/ UnfollowGetUser(p) \/ UnfollowUpdUser(p) \/ UnfollowGetRound(p)
    \/ UnfollowUpdRound(p)
    \/ IntroCheck(p) \/ IntroInsert(p) \/ IntroGetRound(p) \/ IntroUpdRound(p)
    \/ StoreFail(p)

\* Clients call concurrently, each client (p) making one call; the k-th call
\* to start is client k's.
Next == \E p \in Procs : (p = calls + 1 /\ StartStored(p)) \/ Step(p)

Spec == Init /\ [][Next]_vars

\* One client calling again and again: a call starts only when the one before
\* it has ended.
SeqNext == (Quiet /\ StartStored(1)) \/ Step(1)

SeqSpec == Init /\ [][SeqNext]_vars

\* One client following and unfollowing, call after call.
FollowNext ==
    \/ /\ Quiet
       /\ \E u \in UserIds, r \in RoundIds : StartFollow(1, u, r) \/ StartUnfollow(1, u, r)
    \/ FollowGetUser(1) \/ FollowUpdUser(1) \/ FollowGetRound(1) \/ FollowUpdRound(1)
    \/ UnfollowGetUser(1) \/ UnfollowUpdUser(1) \/ UnfollowGetRound(1)
    \/ UnfollowUpdRound(1)
    \/ StoreFail(1)

FollowSpec == Init /\ [][FollowNext]_vars

\* One client calling again and again, also with ids of no stored user or round.
AnyNext == (Quiet /\ StartAny(1)) \/ Step(1)

AnySpec == Init /\ [][AnyNext]_vars

\* what a caller of createIntroRequest can pass as startupName: any string
AnyNames == Names \cup {""}
RequestIds == 1..MaxCalls

\* One client creating requests and setting their status, call after call.
RequestNext ==
    \/ /\ Quiet
       /\ \/ \E i \in UserIds, r \in RoundIds, n \in AnyNames : StartIntro(1, i, r, n)
          \/ \E id \in RequestIds, s \in Statuses : StartStatus(1, id, s)
    \/ IntroCheck(1) \/ IntroInsert(1) \/ IntroGetRound(1) \/ IntroUpdRound(1)
    \/ UpdateStatus(1)
    \/ StoreFail(1)

RequestSpec == Init /\ [][RequestNext]_vars

\* what a request body can carry in each of its three fields
BodyUsers == UserIds \cup {NoValue}
BodyRounds == RoundIds \cup {NoValue}
BodyNames == Names \cup {""}

PostStep(p) ==
    \/ PostHasIntro(p)
    \/ IntroCheck(p) \/ IntroInsert(p) \/ IntroGetRound(p) \/ IntroUpdRound(p)
    \/ StoreFail(p)

\* Requests reach the endpoint concurrently; the k-th to arrive is handled as
\* call k.
PostNext ==
    \E p \in Procs :
        \/ /\ p = calls + 1
           /\ \E u \in BodyUsers, r \in BodyRounds, n \in BodyNames : StartPost(p, u, r, n)
        \/ PostStep(p)

PostSpec == Init /\ [][PostNext]_vars

\* Requests reach the endpoint one after the other: each is answered before
\* the next arrives.
PostSeqNext ==
    \/ /\ Quiet
       /\ \E u \in BodyUsers, r \in BodyRounds, n \in BodyNames : StartPost(1, u, r, n)
    \/ PostStep(1)

PostSeqSpec == Init /\ [][PostSeqNext]_vars

\* the files of the form specifications: a logo and a deck that pass, and
\* files that fail on their type or on their size
GoodLogo == [type |-> "image/png", size |-> LOGO_MAX_SIZE]
GoodDeck == [type |-> "application/pdf", size |-> DECK_MAX_SIZE]
FormFiles ==
    {GoodLogo, GoodDeck, [type |-> "image/png", size |-> LOGO_MAX_SIZE + 1],
     [type |-> "application/pdf", size |-> DECK_MAX_SIZE + 1]}

\* a form filled in completely
FilledForm ==
    [EmptyForm EXCEPT !.companyName = "Acme", !.raisingAmount = "0.5",
                      !.description = "Acme", !.logoFile = GoodLogo,
                      !.deckFile = GoodDeck]

\* the user of this browser
PageUser == 1
\* who is signed in: nobody, or that user
Identities == {PageUser, NoValue}

\* One browser showing the home page, or the launch form; one fetch or one
\* handler at a time, over the store.
PageInit ==
    /\ backend \in Backends
    /\ users = [u \in UserIds |-> <<>>]
    /\ rounds = [r \in RoundIds |-> NewRound(0)]
    /\ requests = {}
    /\ proc = [p \in Procs |-> IdleProc]
    /\ calls = 0
    /\ clean = TRUE
    /\ returned = {}
    /\ trending = <<>>
    /\ asked = 0
    /\ page \in {InitialPage, InitialForm}
    /\ storage = EmptyStorage
    /\ form \in IF page.view = "launch" THEN {EmptyForm, FilledForm} ELSE {EmptyForm}

PageNext ==
    \/ \E u \in Identities : AuthChanged(u)
    \/ FetchRounds \/ FetchProfile \/ FetchRequests \/ FetchFail
    \/ \E r \in DOMAIN rounds : ClickFollow(r)
    \/ ToggleCall \/ ToggleSettled
    \/ \E r \in DOMAIN rounds : ClickIntro(r)
    \/ IntroCall \/ IntroSettled \/ IntroRejected
    \/ SubmitLaunch
    \/ LaunchCall \/ LaunchSettled
    \/ Step(1) \/ PostHasIntro(1) \/ LaunchUpload(1) \/ LaunchCreate(1)

PageSpec == PageInit /\ [][PageNext]_vars

\* One client creating and updating rounds between its ledger calls, call
\* after call.
RoundNext ==
    \/ /\ Quiet
       /\ \/ StartStored(1)
          \/ \E u \in UserIds : StartCreate(1, u)
          \/ \E r \in DOMAIN rounds \cup {GhostRound},
                fc \in CounterUpdates, irc \in CounterUpdates :
                StartUpdate(1, r, [followerCount |-> fc, introRequestCount |-> irc])
    \/ Step(1) \/ LaunchCreate(1) \/ UpdateRound(1)

RoundSpec == Init /\ [][RoundNext]_vars

\* what the text fields and the number input of the form can hold
Texts == {"", " ", "Acme"}
Amounts == {"", "0", "-5", "0.5"}

\* LaunchForm on its own: the fields edited, files chosen, the form submitted,
\* users signing in and out. The form creates its round through
\* '@/lib/firestore'.
FormInit ==
    /\ backend = "firestore"
    /\ users = [u \in UserIds |-> <<>>]
    /\ rounds = [r \in RoundIds |-> NewRound(0)]
    /\ requests = {}
    /\ proc = [p \in Procs |-> IdleProc]
    /\ calls = 0
    /\ clean = TRUE
    /\ returned = {}
    /\ trending = <<>>
    /\ asked = 0
    /\ page = InitialForm
    /\ storage = EmptyStorage
    /\ form = EmptyForm

FormNext ==
    \/ \E u \in Identities : AuthChanged(u)
    \/ \E v \in Texts : InputChange("companyName", v) \/ InputChange("description", v)
    \/ \E a \in Amounts : InputChange("raisingAmount", a)
    \/ \E file \in FormFiles : LogoChange(file) \/ DeckChange(file)
    \/ calls < MaxLaunches /\ SubmitLaunch
    \/ LaunchCall \/ LaunchSettled
    \/ LaunchUpload(1) \/ LaunchCreate(1) \/ StoreFail(1)

FormSpec == FormInit /\ [][FormNext]_vars

\* the names one investor's requests are made under
InvestorNames == Names \cup {"Apex"}

\* One investor requesting intros to the rounds, under one name or another,
\* and the status of requests being set, call after call.
InvestorNext ==
    \/ /\ Quiet
       /\ \/ \E r \in RoundIds, n \in InvestorNames : StartIntro(1, PageUser, r, n)
          \/ \E id \in RequestIds, s \in Statuses : StartStatus(1, id, s)
    \/ IntroCheck(1) \/ IntroInsert(1) \/ IntroGetRound(1) \/ IntroUpdRound(1)
    \/ UpdateStatus(1)
    \/ StoreFail(1)

InvestorSpec == Init /\ [][InvestorNext]_vars

\* the files offered to the upload functions: every allowed type, two types
\* that are not, and sizes at and around both maxima
FileTypes == ALLOWED_LOGO_TYPES \cup ALLOWED_DECK_TYPES \cup {"image/gif", ""}
FileSizes == {0, LOGO_MAX_SIZE, LOGO_MAX_SIZE + 1, DECK_MAX_SIZE, DECK_MAX_SIZE + 1}
Files == [type : FileTypes, size : FileSizes]

\* One client calling uploadLogo and uploadDeck, call after call.
StorageNext ==
    \/ /\ Quiet
       /\ \E file \in Files : StartUploadLogo(1, file) \/ StartUploadDeck(1, file)
    \/ \E k \in {"logo", "deck"} : Upload(1, k)
    \/ StoreFail(1)

StorageSpec == Init /\ [][StorageNext]_vars

\* The trending query over any stored rounds.
RankInit ==
    /\ backend \in Backends
    /\ users = [u \in UserIds |-> <<>>]
    /\ rounds \in [RankRoundIds ->
                     [createdAt : 0..MaxTime, updatedAt : {MaxTime},
                      followerCount : 0..MaxCount, introRequestCount : {0}]]
    /\ requests = {}
    /\ proc = [p \in Procs |-> IdleProc]
    /\ calls = 0
    /\ clean = TRUE
    /\ returned = {}
    /\ trending = <<>>
    /\ asked = 0
    /\ page = InitialPage
    /\ storage = EmptyStorage
    /\ form = EmptyForm

RankNext == \E limitCount \in 1..(RankRounds + 1) : GetTrendingRounds(limitCount)

RankSpec == RankInit /\ [][RankNext]_vars

\* ------------------------------------------------------------------ claims
Followers(r) == {u \in DOMAIN users : Follows(u, r)}

RequestsOn(r) == {q \in requests : q.roundId = r}

ReturnedFor(i, r) == {t \in returned : t[1] = i /\ t[2] = r}

Started == 1..calls

\* C1: whenever no call is in progress (and none has thrown), every round's
\* followerCount is the number of distinct users whose followedRounds holds
\* the round.
C1_FollowerCountIsFollowers ==
    (Quiet /\ clean) =>
        \A r \in DOMAIN rounds : rounds[r].followerCount = Cardinality(Followers(r))

\* C2: at most one intro request is stored per (investorId, roundId), whatever
\* the interleaving of createIntroRequest calls.
C2_OneRequestPerPair ==
    \A i \in UserIds, r \in RoundIds : Cardinality(RequestsFor(i, r)) <= 1

\* C3: whenever no call is in progress (and none has thrown), every round's
\* introRequestCount is the number of stored requests for the round.
C3_IntroCountIsRequests ==
    (Quiet /\ clean) =>
        \A r \in DOMAIN rounds : rounds[r].introRequestCount = Cardinality(RequestsOn(r))

C5_ConcurrentIntroIdempotent ==
    /\ \A p \in Procs : proc[p].err # "UniquenessConflict"
    /\ \A i \in UserIds, r \in RoundIds : Cardinality(ReturnedFor(i, r)) <= 1
    /\ (Quiet /\ clean) =>
         \A r \in DOMAIN rounds :
            rounds[r].introRequestCount
              = Cardinality({i \in UserIds : RequestsFor(i, r) # {}})

C7_ThreeConcurrentFollows ==
    (/\ calls = 3
     /\ \A p \in 1..3 :
          /\ proc[p].op = "follow" /\ proc[p].pc = "done"
          /\ proc[p].user = proc[1].user /\ proc[p].round = proc[1].round)
    => /\ rounds[proc[1].round].followerCount = 1
       /\ Follows(proc[1].user, proc[1].round)

\* C8: when different users call concurrently against a round, once all calls
\* have returned the counters have changed by the sum of the calls' deltas.
C8_NoLostCounterUpdate ==
    (/\ Quiet /\ clean
     /\ \A p, q \in Started : p # q => proc[p].user # proc[q].user)
    => \A r \in DOMAIN rounds :
         /\ rounds[r].followerCount
              = Cardinality({p \in Started : proc[p].op = "follow" /\ proc[p].round = r})
         /\ rounds[r].introRequestCount
              = Cardinality({p \in Started : proc[p].op = "intro" /\ proc[p].round = r})

C10_TrendingOrder ==
    \A j, k \in DOMAIN trending :
        j < k =>
            \/ trending[j].createdAt > trending[k].createdAt
            \/ /\ trending[j].createdAt = trending[k].createdAt
               /\ trending[j].followerCount >= trending[k].followerCount

\* the example: A(t0, 1) and B(t0, 2) behind C(t1 > t0, 0), returned as [C, B, A]
C10_Witness ==
    /\ Len(trending) = 3
    /\ trending[1].createdAt > trending[2].createdAt
    /\ trending[2].createdAt = trending[3].createdAt
    /\ trending[1].followerCount = 0
    /\ trending[3].followerCount > trending[1].followerCount
    /\ trending[2].followerCount > trending[3].followerCount

\* a ranks strictly above b in the trending order
RanksAbove(a, b) ==
    \/ a.createdAt > b.createdAt
    \/ a.createdAt = b.createdAt /\ a.followerCount > b.followerCount

StoredRows ==
    {[id |-> id, createdAt |-> rounds[id].createdAt,
      followerCount |-> rounds[id].followerCount,
      introRequestCount |-> rounds[id].introRequestCount] : id \in DOMAIN rounds}

TrendingRows == {trending[k] : k \in DOMAIN trending}

\* C11: getTrendingRounds(limit) returns min(limit, number of stored rounds)
\* rounds, each stored round at most once, and no stored round it leaves out
\* ranks above one it returns.
C11_TrendingLimit ==
    asked # 0 =>
        /\ Len(trending) = IF asked < Cardinality(DOMAIN rounds)
                           THEN asked ELSE Cardinality(DOMAIN rounds)
        /\ Len(trending) <= asked
        /\ TrendingRows \subseteq StoredRows
        /\ Cardinality(TrendingRows) = Len(trending)
        /\ \A a \in TrendingRows, b \in StoredRows \ TrendingRows : ~RanksAbove(b, a)

\* a query with a limit below the number of rounds has cut the list: it left
\* out a round that ranks below every round returned
C11_Witness ==
    /\ asked = 2 /\ Len(trending) = 2 /\ Cardinality(DOMAIN rounds) > 2
    /\ \E b \in StoredRows \ TrendingRows : \A a \in TrendingRows : RanksAbove(a, b)

\* C12: a getTrendingRounds call that follows one with the same limit, the
\* rounds unchanged in between, returns the same list in the same order.
C12_RepeatedQuerySameOrder ==
    [][(asked # 0 /\ asked' = asked /\ rounds' = rounds) => trending' = trending]_vars

\* the call that has just been received by the endpoint in this step
Received(p) == calls' = calls + 1 /\ proc'[p] # proc[p] /\ proc'[p].route

\* C13 as stated: the endpoint answers 400 when roundId or startupName is
\* missing or empty and 401 when userId is missing or empty, and in both cases
\* stores no request and changes no counter.
C13_RejectsIncompleteBody ==
    [][\A p \in Procs :
         Received(p) =>
            /\ (proc'[p].round = NoValue \/ proc'[p].name = "") =>
                  /\ Status(p)' = 400
                  /\ requests' = requests /\ rounds' = rounds
            /\ proc'[p].user = NoValue =>
                  /\ Status(p)' = 401
                  /\ requests' = requests /\ rounds' = rounds]_vars

\* C13, amended: the endpoint answers 400 when roundId or startupName is
\* missing or empty, and 401 when userId is missing or empty while roundId and
\* startupName are present; in both cases the handler ends there, stores no
\* request and changes no counter.
C13_RejectsIncompleteBodyAmended ==
    [][\A p \in Procs :
         Received(p) =>
            /\ (proc'[p].round = NoValue \/ proc'[p].name = "") =>
                  /\ Status(p)' = 400 /\ proc'[p].pc = "done"
                  /\ requests' = requests /\ rounds' = rounds
            /\ (proc'[p].user = NoValue /\ proc'[p].round # NoValue /\ proc'[p].name # "") =>
                  /\ Status(p)' = 401 /\ proc'[p].pc = "done"
                  /\ requests' = requests /\ rounds' = rounds]_vars

\* a request is stored, and a body without userId but with the two other
\* fields has been answered 401
C13_Witness ==
    /\ requests # {}
    /\ proc[1].route /\ proc[1].user = NoValue
    /\ proc[1].round # NoValue /\ proc[1].name # ""
    /\ Status(1) = 401

\* the handler's calls for investor i and round r, with a complete body
PostsFor(i, r) ==
    {p \in Started : proc[p].route /\ proc[p].user = i /\ proc[p].round = r
                       /\ proc[p].name # ""}

\* C14: of the POSTs for one (userId, roundId), once all are answered (the
\* store never unreachable), exactly one was answered 201 and every other one
\* 200; none was answered with an error.
C14_OneCreatedOthersAlready ==
    (Quiet /\ \A p \in Procs : proc[p].err # "StoreUnavailable") =>
        \A i \in UserIds, r \in RoundIds :
            PostsFor(i, r) # {} =>
                /\ Cardinality({p \in PostsFor(i, r) : Status(p) = 201}) = 1
                /\ \A p \in PostsFor(i, r) : Status(p) \in {200, 201}

\* C17: hasIntroRequest(i, r) is true exactly when a request with that
\* investorId and that roundId is stored: the endpoint answers 200 'already
\* requested' only for a pair that had a request, and goes on to
\* createIntroRequest only for a pair that had none; once createIntroRequest
\* has returned for a pair, hasIntroRequest is true for it.
C17_HasIntroRequestExact ==
    /\ \A i \in UserIds, r \in RoundIds :
         HasIntroRequest(i, r) <=> RequestsFor(i, r) # {}
    /\ \A p \in Procs :
         /\ (proc[p].route /\ proc[p].answer = 200) => proc[p].had
         /\ (proc[p].route /\ proc[p].op = "intro") => ~proc[p].had
         /\ (proc[p].op = "intro" /\ proc[p].pc = "done") =>
               HasIntroRequest(proc[p].user, proc[p].round)

\* with a request of investor 1 for round 1 stored (and nothing else), a POST
\* of investor 1 for round 2 was not taken for a repetition and has stored
\* its own request
C17_Witness ==
    /\ proc[1].route /\ proc[1].op = "intro" /\ proc[1].pc = "done"
    /\ proc[1].user = 1 /\ proc[1].round = 2
    /\ HasIntroRequest(1, 1) /\ HasIntroRequest(1, 2)
    /\ ~HasIntroRequest(2, 1) /\ ~HasIntroRequest(2, 2)

\* C16: every stored intro request has a non-empty investorId, roundId and
\* startupName, a status among pending, accepted and declined, and a
\* createdAt; the request a createIntroRequest call has just created carries
\* the values the call was given and the status pending.
C16_RequestFieldsComplete ==
    /\ \A q \in requests :
         /\ q.investorId \in UserIds
         /\ q.roundId \in RoundIds
         /\ q.startupName # ""
         /\ q.status \in Statuses
         /\ "createdAt" \in DOMAIN q
    /\ \A p \in Procs :
         (proc[p].op = "intro" /\ proc[p].pc = "done" /\ ~proc[p].had) =>
            \E q \in requests :
               /\ q.id = proc[p].ret
               /\ q.investorId = proc[p].user /\ q.roundId = proc[p].round
               /\ q.startupName = proc[p].name /\ q.status = "pending"

\* C18: requests have distinct ids, and the id a createIntroRequest call
\* returns is that of a request with exactly the call's investor and round:
\* calls for different pairs return different ids, also when the pairs share
\* the investor or the round.
C18_PairsIndependent ==
    /\ \A q1, q2 \in requests : q1.id = q2.id => q1 = q2
    /\ \A t \in returned :
         \E q \in requests : q.id = t[3] /\ q.investorId = t[1] /\ q.roundId = t[2]
    /\ \A t1, t2 \in returned : <<t1[1], t1[2]>> # <<t2[1], t2[2]>> => t1[3] # t2[3]
    /\ \A p \in Procs :
         (proc[p].op = "intro" /\ proc[p].pc = "done" /\ ~proc[p].had) =>
            Cardinality(RequestsFor(proc[p].user, proc[p].round)) = 1

\* three calls have returned three ids: for (1, 1), for (1, 2), which shares
\* the investor, and for (2, 1), which shares the round
C18_Witness ==
    /\ clean
    /\ Cardinality(requests) = 3 /\ Cardinality({t[3] : t \in returned}) = 3
    /\ \A pair \in {<<1, 1>>, <<1, 2>>, <<2, 1>>} :
         \E t \in returned : t[1] = pair[1] /\ t[2] = pair[2]

\* the home page shows round r as followed
ShownFollowing(r) == \E k \in DOMAIN page.followedRounds : page.followedRounds[k] = r

\* C15: while nobody is signed in, no click on Follow or Request Intro and no
\* submission of the launch form starts a call or leaves a handler waiting
\* for one, nothing in the store changes, and the click or submission shows
\* the sign-in prompt; the auth state still loading makes no difference.
C15_SignedOutRunsNothing ==
    [][page.user = NoValue =>
         /\ calls' = calls
         /\ page'.busy.kind \in {"none", "fetch"}
         /\ users' = users /\ rounds' = rounds /\ requests' = requests
         /\ (/\ page.busy.kind = "none" /\ page' # page
             /\ page'.user = NoValue /\ page'.authLoading = page.authLoading)
            => page'.alert = "signin"]_vars

\* after calls made while signed in, the user has signed out and a click on
\* the home page has brought up the sign-in prompt
C15_Witness ==
    /\ page.view = "home" /\ page.user = NoValue /\ ~page.authLoading
    /\ page.alert = "signin" /\ page.busy.kind = "none"
    /\ calls > 0 /\ proc[1].pc = "done"

\* C19: with a user signed in, the cards rendered and no fetch or toggle in
\* progress, a round is shown as followed exactly when it is in the user's
\* stored followedRounds.
C19_ShownFollowIsStored ==
    (/\ page.view = "home" /\ page.user # NoValue
     /\ page.busy.kind = "none" /\ ~page.loading /\ ~page.error)
    => \A r \in page.cards : ShownFollowing(r) <=> Follows(page.user, r)

\* C20: when the call behind a follow toggle has thrown, what the handler
\* does next leaves the followed list as it is and ends the button's loading
\* state; when the intro-request POST is answered with a non-OK status or the
\* fetch rejects, the button is not marked requested and its loading state
\* ends.
C20_FailedMutationKeepsState ==
    [][/\ (/\ page.busy.kind = "toggle" /\ calls >= page.busy.call
           /\ proc[1].pc = "failed" /\ page' # page)
          => /\ page'.followedRounds = page.followedRounds
             /\ page'.busy.kind = "none"
       /\ (/\ page.busy.kind = "intro" /\ page' # page
           /\ \/ page'.alert = "failed"
              \/ calls >= page.busy.call /\ proc[1].pc = "failed"
              \/ calls >= page.busy.call /\ Resting(1) /\ Status(1) \notin {200, 201})
          => /\ page.busy.round \notin page'.isRequested
             /\ page'.isRequested = page.isRequested
             /\ page'.busy.kind = "none"]_vars

\* an unfollow has thrown and the handler is through: the round is still
\* shown as followed, the failure alert is up, nothing is loading
C20_Witness ==
    /\ proc[1].op = "unfollow" /\ proc[1].pc = "failed"
    /\ page.busy.kind = "none" /\ page.alert = "failed"
    /\ ShownFollowing(proc[1].round)

\* C21: a round is created with both counters at 0, and a step that changes a
\* stored round's followerCount or introRequestCount is a step of followRound,
\* unfollowRound or createIntroRequest: createFundraisingRound and
\* updateFundraisingRound set neither counter to a value of the caller's.
C21_CountersOnlyByLedger ==
    [][/\ \A r \in DOMAIN rounds' \ DOMAIN rounds :
            rounds'[r].followerCount = 0 /\ rounds'[r].introRequestCount = 0
       /\ \A r \in DOMAIN rounds :
            (\/ rounds'[r].followerCount # rounds[r].followerCount
             \/ rounds'[r].introRequestCount # rounds[r].introRequestCount)
            => \E p \in Procs :
                  proc'[p] # proc[p] /\ proc[p].op \in {"follow", "unfollow", "intro"}]_vars

\* C22: a stored round's createdAt never changes, and every step that changes
\* a field of a stored round, the counter writes of followRound, unfollowRound
\* and createIntroRequest included, leaves its updatedAt later than it was.
C22_UpdatedAtAdvances ==
    [][\A r \in DOMAIN rounds :
         /\ rounds'[r].createdAt = rounds[r].createdAt
         /\ rounds'[r] # rounds[r] => rounds'[r].updatedAt > rounds[r].updatedAt]_vars

\* a logo that is to pass: one of the four image types, at most 5 MB
PassesAsLogo(file) ==
    /\ file.type \in {"image/png", "image/jpeg", "image/jpg", "image/webp"}
    /\ file.size <= 5 * 1024 * 1024

\* a deck that is to pass: a PDF of at most 10 MB
PassesAsDeck(file) == file.type = "application/pdf" /\ file.size <= 10 * 1024 * 1024

\* C23: validateLogoFile(f) is valid exactly when f.type is image/png,
\* image/jpeg, image/jpg or image/webp and f.size <= 5 MB, validateDeckFile(f)
\* exactly when f.type is application/pdf and f.size <= 10 MB; an invalid
\* result carries an error; uploadLogo and uploadDeck given an invalid file
\* throw that error with no storage call made or to come, so that the bucket
\* only ever holds files that pass.
C23_FileValidation ==
    /\ \A p \in Procs :
         /\ proc[p].op = "uploadLogo" =>
               (proc[p].validation.valid <=> PassesAsLogo(proc[p].logo))
         /\ proc[p].op = "uploadDeck" =>
               (proc[p].validation.valid <=> PassesAsDeck(proc[p].deck))
         /\ (proc[p].op \in {"uploadLogo", "uploadDeck"} /\ ~proc[p].validation.valid) =>
               /\ proc[p].validation.error # ""
               /\ proc[p].pc = "failed" /\ proc[p].err = proc[p].validation.error
               /\ proc[p].pending = {}
    /\ storage.logo # NoFile => PassesAsLogo(storage.logo)
    /\ storage.deck # NoFile => PassesAsDeck(storage.deck)

\* a logo of exactly 5 MB is stored, and uploadDeck has thrown on a PDF one
\* byte over 10 MB with nothing stored under decks/
C23_Witness ==
    /\ storage.logo # NoFile /\ storage.logo.size = 5 * 1024 * 1024
    /\ proc[1].op = "uploadDeck" /\ proc[1].pc = "failed"
    /\ proc[1].deck = [type |-> "application/pdf", size |-> 10 * 1024 * 1024 + 1]
    /\ proc[1].err = "File size exceeds limit"
    /\ storage.deck = NoFile

\* the fields of the form that are missing: a blank name or description, an
\* amount that is no number above 0, no (validated) logo, no (validated) deck
Missing(f) ==
    {k \in {"companyName"} : f.companyName \in {"", " "}}
      \cup {k \in {"description"} : f.description \in {"", " "}}
      \cup {k \in {"raisingAmount"} : f.raisingAmount \in {"", "0", "-5"}}
      \cup {k \in {"logo"} : f.logoFile = NoFile \/ ~PassesAsLogo(f.logoFile)}
      \cup {k \in {"deck"} : f.deckFile = NoFile \/ ~PassesAsDeck(f.deckFile)}

\* the submission goes on to the upload, a round is created, or onSuccess is
\* called, in this step
LaunchGoesOn ==
    \/ page.busy.kind = "none" /\ page'.busy.kind = "launch"
    \/ calls' = calls + 1 /\ proc'[1].op = "launch"
    \/ rounds' # rounds
    \/ page.alert # "launched" /\ page'.alert = "launched"

\* the submission ends in the handler: no call, nothing uploaded or created
LaunchRefused ==
    /\ page'.busy.kind = "none" /\ calls' = calls /\ proc' = proc
    /\ storage' = storage /\ rounds' = rounds

\* C24 as stated: a submission reaches the upload and createFundraisingRound,
\* and onSuccess is called, only if no field of the form is missing; when one
\* is, nothing is uploaded or created and an error message is set for each
\* missing field.
C24_LaunchNeedsCompleteForm ==
    [][/\ LaunchGoesOn => Missing(form) = {}
       /\ (SubmitLaunch /\ Missing(form) # {}) =>
             /\ LaunchRefused
             /\ \A k \in Missing(form) : form'.errors[k] # ""]_vars

\* C24, amended: a submission reaches the upload and createFundraisingRound,
\* and onSuccess is called, only if no field of the form is missing; when one
\* is, nothing is uploaded or created, and if a user is signed in an error
\* message is set for each missing field.
C24_LaunchNeedsCompleteFormAmended ==
    [][/\ LaunchGoesOn => Missing(form) = {}
       /\ (SubmitLaunch /\ Missing(form) # {}) =>
             /\ LaunchRefused
             /\ page.user # NoValue => \A k \in Missing(form) : form'.errors[k] # ""]_vars

\* a complete form has been launched (files stored, round created), then the
\* deck lost to a file that does not pass, and the next submission has been
\* refused with the deck's error message
C24_Witness ==
    /\ page.view = "launch" /\ page.user # NoValue /\ page.busy.kind = "none"
    /\ Cardinality(DOMAIN rounds) = NumRounds + 1
    /\ storage.logo # NoFile /\ storage.deck # NoFile
    /\ calls = 1 /\ proc[1].op = "launch" /\ proc[1].pc = "done"
    /\ Missing(form) = {"deck"} /\ form.errors.deck = "required"

\* C25: in followRound the write of followedRounds is made before the counter
\* is read and written. During a follow and after one that failed part-way,
\* the call has raised followerCount only if the relation it adds is stored:
\* the counter is either as the call found it, or one above with the round in
\* the user's followedRounds; it never overstates what the call added.
C25_RelationBeforeCounter ==
    \A p \in Procs :
        proc[p].op = "follow" =>
            /\ proc[p].pc \in {"getRound", "updRound"} =>
                  Follows(proc[p].user, proc[p].round)
            /\ rounds[proc[p].round].followerCount # proc[p].fc0 =>
                  /\ rounds[proc[p].round].followerCount = proc[p].fc0 + 1
                  /\ ~proc[p].had
                  /\ Follows(proc[p].user, proc[p].round)

\* a follow has failed between its two writes: the relation is stored and the
\* counter is still what the call found, one below the followers
C25_Witness ==
    /\ proc[1].op = "follow" /\ proc[1].pc = "failed" /\ ~proc[1].had
    /\ Follows(proc[1].user, proc[1].round)
    /\ rounds[proc[1].round].followerCount = proc[1].fc0
    /\ rounds[proc[1].round].followerCount < Cardinality(Followers(proc[1].round))

\* C26: a createIntroRequest call for a pair that already has a stored
\* request changes nothing in the store: no step of the call changes a
\* request (id, startupName, status, createdAt), adds one, or changes a round
\* (introRequestCount), whatever name the call passes and whatever the status
\* of the stored request; the call returns the stored request's id.
C26_RepeatedRequestChangesNothing ==
    [][\A p \in Procs :
         (proc[p].op = "intro" /\ proc[p].had /\ ~Resting(p)) =>
            /\ requests' = requests /\ rounds' = rounds /\ users' = users
            /\ proc'[p].pc = "done" =>
                  \E q \in requests :
                     /\ q.id = proc'[p].ret
                     /\ q.investorId = proc[p].user /\ q.roundId = proc[p].round]_vars

\* a call has returned for a pair whose one request, stored under another
\* name, had been accepted: the request is as it was, the counter at one
C26_Witness ==
    /\ proc[1].op = "intro" /\ proc[1].pc = "done" /\ proc[1].had
    /\ \E q \in requests :
          /\ RequestsFor(proc[1].user, proc[1].round) = {q}
          /\ q.id = proc[1].ret /\ q.status = "accepted"
          /\ q.startupName # proc[1].name /\ q.startupName # ""
    /\ proc[1].name # ""
    /\ rounds[proc[1].round].introRequestCount = 1

\* C27: updateIntroRequestStatus(requestId, s) on a stored request sets its
\* status to s whatever the status was (no transition is refused), and that
\* is all it changes: the request's other fields, every other request and
\* every round (introRequestCount) are as before.
C27_StatusSetFreely ==
    [][\A p \in Procs :
         (/\ proc[p].op = "status" /\ proc[p].pc = "update"
          /\ \E q \in requests : q.id = proc[p].req) =>
            /\ proc'[p].pc = "failed" => proc'[p].err = "StoreUnavailable"
            /\ rounds' = rounds /\ users' = users
            /\ proc'[p].pc = "done" =>
                  /\ Cardinality(requests') = Cardinality(requests)
                  /\ \A q \in requests :
                        IF q.id = proc[p].req
                        THEN \E n \in requests' :
                                /\ n.id = q.id /\ n.status = proc[p].name
                                /\ n.investorId = q.investorId /\ n.roundId = q.roundId
                                /\ n.startupName = q.startupName
                                /\ n.createdAt = q.createdAt
                        ELSE q \in requests']_vars

\* an accepted request has been set back to pending, its round's counter
\* still at one
C27_Witness ==
    /\ proc[1].op = "status" /\ proc[1].pc = "done"
    /\ proc[1].status0 = "accepted" /\ proc[1].name = "pending"
    /\ \E q \in requests :
          /\ q.id = proc[1].req /\ q.status = "pending"
          /\ rounds[q.roundId].introRequestCount = 1

\* C28: followRound and createIntroRequest for a round id that is not stored
\* write nothing: no user's followedRounds ever holds an id of no stored
\* round, no stored request is for one, and a call for such a round ends by
\* throwing.
C28_UnknownRoundWritesNothing ==
    /\ \A u \in DOMAIN users : \A k \in DOMAIN users[u] : users[u][k] \in DOMAIN rounds
    /\ \A q \in requests : q.roundId \in DOMAIN rounds
    /\ \A p \in Procs :
         (proc[p].op \in {"follow", "intro"} /\ proc[p].round \notin DOMAIN rounds) =>
            proc[p].pc # "done"

\* the only call of the behaviour on its user and round
OnlyCallOnPair(p) ==
    \A q \in Started :
        (q # p /\ proc[q].op \in {"follow", "unfollow"}) =>
            (proc[q].user # proc[p].user \/ proc[q].round # proc[p].round)

\* C29: when the calls of one user on different rounds run concurrently
\* (follows, or follows and unfollows), then once all have returned the
\* user's followedRounds shows each of them: a round followed by the one call
\* made on it is in the list, whatever the other calls wrote.
C29_ListWritesNotLost ==
    (Quiet /\ clean) =>
        \A p \in Started :
            (proc[p].op = "follow" /\ OnlyCallOnPair(p)) =>
                Follows(proc[p].user, proc[p].round)

\* C30: when the home page's data fetch finishes, what it shows belongs to
\* the identity it was made for: a round is shown as followed only if
\* somebody is signed in and the round is in that user's stored
\* followedRounds, and as requested only if that user has a stored request
\* for it; with nobody signed in, or a user without a profile, no round is
\* shown as followed or requested.
C30_ShownStateOfCurrentUser ==
    [][(/\ page.view = "home" /\ page.busy.kind = "fetch"
        /\ page'.busy.kind = "none" /\ ~page'.error) =>
          \A r \in page'.cards :
             /\ (\E k \in DOMAIN page'.followedRounds : page'.followedRounds[k] = r) =>
                   (page.user # NoValue /\ Follows(page.user, r))
             /\ r \in page'.isRequested =>
                   (page.user # NoValue /\ RequestsFor(page.user, r) # {})]_vars

====
